---- MODULE Spec2Model ----
(***************************************************************************)
(* Verification model of the dxtr agent orchestration core:                *)
(*   - parallel_map            (dxtr/agents/subagents/util.py)             *)
(*   - Agent.chat_with_tool_calling (dxtr/base/agent.py)                   *)
(*   - cmd_chat tool turn      (dxtr/cli.py)                               *)
(*   - MainAgent.chat stream   (dxtr/agents/main/agent.py)                 *)
(*   - _retrieve_deduplicated  (dxtr/agents/deep_research/agent.py)        *)
(*   - rank_papers_parallel    (dxtr/agents/subagents/papers_ranking)      *)
(*   - papers-ranking Agent.run (dxtr/agents/papers_ranking/agent.py)      *)
(*   - deep-research Agent.run (dxtr/agents/deep_research/agent.py)        *)
(*   - handle_query session store (dxtr/server.py)                         *)
(*   - chat_stream event_generator and publish (dxtr/server.py, __init__)  *)
(* Each component has its own specification (SpecPM, SpecAgent, ...); the  *)
(* variables of the other components stay at their initial values.         *)
(* Python lists are 0-based; sequences here are 1-based, so the code's     *)
(* idx corresponds to i - 1 and the 1-based index handed to func is i.     *)
(***************************************************************************)
EXTENDS Integers, Sequences, FiniteSets, TLC

\* ------------------------------------------------------------------ bounds
MaxItems == 3
MaxConcurrency == 2
MaxIterations == 2
MaxToolCalls == 2
MaxTurns == 2
MaxLines == 3
MaxQuestions == 3
MaxPapers == 3
MaxOutputLines == 3
MaxRequests == 3
MaxEvents == 3
\* stands for maxsize = 100 of create_event_queue
MaxQueueSize == 2

\* ------------------------------------------------------- program constants
\* index.as_retriever(similarity_top_k=3)
similarity_top_k == 3
\* PaperScore.score: Field(ge=1, le=10)
MaxScore == 10
\* _rank_papers_pre: num_forks = 3
num_forks == 3

\* ------------------------------------------------------------- parallel_map
VARIABLES
    items,              \* parallel_map argument: the list of items
    max_concurrency,    \* 0 stands for None (no semaphore)
    status_enabled,     \* status_interval > 0
    raising,            \* indices whose func call raises (behaviour of func)
    pm_pc,              \* position of the parallel_map coroutine
    task,               \* state of each process_one task
    results,            \* results list, pre-sized to total
    completed_count,
    pending_indices,
    sem_value,          \* free permits of the semaphore
    progress_calls,     \* the completed values handed to on_progress, in call order
    status_task,        \* state of the print_pending_status task
    last_status,        \* last <<done, remaining>> the reporter published
    pm_return,          \* value returned by parallel_map
    finish_order        \* history: indices in the order their func call returned

pmVars == <<items, max_concurrency, status_enabled, raising, pm_pc, task, results,
            completed_count, pending_indices, sem_value, progress_calls,
            status_task, last_status, pm_return, finish_order>>

\* ------------------------------------- Agent.chat_with_tool_calling (base)
VARIABLES
    messages,           \* the message history of the turn
    max_iterations,
    iterations,
    ag_pc,              \* position inside chat_with_tool_calling
    response,           \* the response being handled
    tc_pos,             \* position of the for loop over response.message.tool_calls
    model_calls,        \* history: number of self.chat calls
    dispatch_phases,    \* history: number of times the tool loop was entered
    tool_lookups,       \* history: number of self.tools.call invocations
    tool_runs,          \* history: number of times a registered callable ran
    ag_return,          \* the text returned to the caller
    responses_log       \* history: the responses received, in order

agVars == <<messages, max_iterations, iterations, ag_pc, response, tc_pos,
            model_calls, dispatch_phases, tool_lookups, tool_runs, ag_return,
            responses_log>>

\* ------------------------------------------------------- cmd_chat (cli.py)
VARIABLES
    chat_history,
    cli_pc,             \* position inside the body of the session loop
    response_text,
    cli_tool_calls,     \* tool_calls of the streamed response
    cli_pos,            \* position of the for loop over tool_calls
    cli_turns,          \* number of user inputs handled so far
    cli_escaped,        \* history: an exception left the turn (handler at line 272)
    cli_dispatched,     \* history: tool calls the for loop has gone over
    cli_tool_msgs       \* history: tool messages appended

cliVars == <<chat_history, cli_pc, response_text, cli_tool_calls, cli_pos,
             cli_turns, cli_escaped, cli_dispatched, cli_tool_msgs>>

\* ------------------------------------------- MainAgent.chat (main/agent.py)
VARIABLES
    st_pc,                  \* position of the generator
    accumulated_tool_calls, \* the dict, as its entries in insertion order
    events,                 \* the events yielded so far
    st_lines,               \* number of stream lines read
    st_target,              \* the arguments string the server streams per index
    st_sent,                \* history: how many characters of it were sent
    st_frags,               \* history: non-empty arguments fragments per index
    st_failure              \* history: the transport failure that happened

stVars == <<st_pc, accumulated_tool_calls, events, st_lines, st_target, st_sent,
            st_frags, st_failure>>

\* ------------------------- _retrieve_deduplicated (deep_research/agent.py)
VARIABLES
    questions,          \* the exploration questions, in generation order
    retriever,          \* what retriever.retrieve answers for each question
    dd_pc,
    q_pos,              \* position of the loop over the questions
    all_chunks,
    chunk_ids_seen

ddVars == <<questions, retriever, dd_pc, q_pos, all_chunks, chunk_ids_seen>>

\* ------------------------ rank_papers_parallel (subagents/papers_ranking)
VARIABLES
    papers,             \* the paper ids, in the order of the papers dict
    run_outcome,            \* per paper: the score agent.run gives, 0 when it raises
    rk_pc,
    rk_task,            \* state of each score_one_paper coroutine
    rk_results,         \* what each coroutine returned
    rk_return           \* the list rank_papers_parallel returns

rkVars == <<papers, run_outcome, rk_pc, rk_task, rk_results, rk_return>>

\* ------------------------------- papers-ranking Agent.run (papers_ranking)
VARIABLES
    fk_papers,          \* the papers _load_papers returned, as their ids
    fk_pc,              \* position inside Agent.run
    fk_worker,          \* state of each paper's _rank_papers_pre program
    fork_score,         \* per paper and fork: what sgl.gen("score") produced
    state_score,        \* per paper: s["score"] of the program state
    fk_results,         \* the results dict, as its entries in insertion order
    fk_return           \* the dict Agent.run returns

fkVars == <<fk_papers, fk_pc, fk_worker, fork_score, state_score, fk_results,
            fk_return>>

\* ------------------------------ deep-research Agent.run (deep_research)
VARIABLES
    rs_pc,                  \* position inside Agent.run
    date_given,             \* the date argument is not None
    papers_state,           \* what exists under the papers root
    metadata_state,         \* metadata.json of the paper directory
    index_exists,           \* paper.index of the paper directory
    total_chunks,           \* len(index.docstore.docs)
    exploration_questions,
    rs_all_chunks,          \* all_chunks of Agent.run
    generation_calls,       \* history: calls of _generate_exploration_questions
    retrieval_calls,        \* history: calls of _retrieve_deduplicated
    answer_calls,           \* history: calls of _answer_with_retrieved_chunks
    rs_return               \* what Agent.run returned

rsVars == <<rs_pc, date_given, papers_state, metadata_state, index_exists,
            total_chunks, exploration_questions, rs_all_chunks, generation_calls,
            retrieval_calls, answer_calls, rs_return>>

\* ------------------------------------------- handle_query (server.py)
VARIABLES
    _sessions,          \* the session store: the history stored per session key
    hq_key,             \* per request: its session key
    hq_pc,              \* per request: position inside handle_query
    hq_history          \* per request: the local variable history

hqVars == <<_sessions, hq_key, hq_pc, hq_history>>

\* ---------------------------------- chat_stream event_generator (server.py)
VARIABLES
    cs_pc,              \* position of event_generator
    queue,              \* the request's event queue (None is the empty sequence)
    agent_task,         \* state of the task running handle_query
    published,          \* number of publish calls made by the agent task
    enqueued,           \* history: the events put_nowait accepted, in order
    sent                \* the events yielded to the client, in order

csVars == <<cs_pc, queue, agent_task, published, enqueued, sent>>

vars == <<pmVars, agVars, cliVars, stVars, ddVars, rkVars, fkVars, rsVars, hqVars, csVars>>

notPM == <<agVars, cliVars, stVars, ddVars, rkVars, fkVars, rsVars, hqVars, csVars>>
notAg == <<pmVars, cliVars, stVars, ddVars, rkVars, fkVars, rsVars, hqVars, csVars>>
notCli == <<pmVars, agVars, stVars, ddVars, rkVars, fkVars, rsVars, hqVars, csVars>>
notSt == <<pmVars, agVars, cliVars, ddVars, rkVars, fkVars, rsVars, hqVars, csVars>>
notDd == <<pmVars, agVars, cliVars, stVars, rkVars, fkVars, rsVars, hqVars, csVars>>
notRk == <<pmVars, agVars, cliVars, stVars, ddVars, fkVars, rsVars, hqVars, csVars>>
notFk == <<pmVars, agVars, cliVars, stVars, ddVars, rkVars, rsVars, hqVars, csVars>>
notRs == <<pmVars, agVars, cliVars, stVars, ddVars, rkVars, fkVars, hqVars, csVars>>
notHq == <<pmVars, agVars, cliVars, stVars, ddVars, rkVars, fkVars, rsVars, csVars>>
notCs == <<pmVars, agVars, cliVars, stVars, ddVars, rkVars, fkVars, rsVars, hqVars>>

ItemValues == {"A", "B"}

\* results = [None] * total
NoResult == [item |-> "None", index |-> 0]

\* the value func(item, idx + 1, total) returns
FuncValue(item, i) == [item |-> item, index |-> i]

SeqsUpTo(S, n) == UNION {[1..k -> S] : k \in 0..n}

total == Len(items)

\* a buggy variant: the result is appended in completion order
ResultSlotByCompletion(i, completed) == completed + 1

\* results[idx] = result  (the slot a finished task writes)
ResultSlot(i, completed) == i

IdlePM ==
    /\ items = <<>>
    /\ max_concurrency = 0
    /\ status_enabled = FALSE
    /\ raising = {}
    /\ pm_pc = "idle"
    /\ task = <<>>
    /\ results = <<>>
    /\ completed_count = 0
    /\ pending_indices = {}
    /\ sem_value = 0
    /\ progress_calls = <<>>
    /\ status_task = "none"
    /\ last_status = <<0, 0>>
    /\ pm_return = <<>>
    /\ finish_order = <<>>

StartPM ==
    /\ items \in SeqsUpTo(ItemValues, MaxItems)
    /\ max_concurrency \in 0..MaxConcurrency
    /\ status_enabled \in BOOLEAN
    /\ raising \in SUBSET (1..Len(items))
    /\ pm_pc = "start"
    /\ task = [i \in 1..Len(items) |-> "created"]
    /\ results = <<>>
    /\ completed_count = 0
    /\ pending_indices = {}
    /\ sem_value = 0
    /\ progress_calls = <<>>
    /\ status_task = "none"
    /\ last_status = <<0, 0>>
    /\ pm_return = <<>>
    /\ finish_order = <<>>

\* lines 47-49: an empty list returns [] at once
PMReturnEmpty ==
    /\ pm_pc = "start"
    /\ total = 0
    /\ pm_pc' = "returned"
    /\ pm_return' = <<>>
    /\ UNCHANGED <<notPM, finish_order, items, max_concurrency, status_enabled, raising, task, results,
                   completed_count, pending_indices, sem_value, progress_calls,
                   status_task, last_status>>

\* lines 51-100: set up the shared state, create the status task, enter gather
PMSetup ==
    /\ pm_pc = "start"
    /\ total > 0
    /\ completed_count' = 0
    /\ pending_indices' = 1..total
    /\ results' = [i \in 1..total |-> NoResult]
    /\ sem_value' = max_concurrency
    /\ status_task' = IF status_enabled THEN "sleeping" ELSE "none"
    /\ task' = [i \in 1..total |-> "scheduled"]
    /\ pm_pc' = "gather"
    /\ UNCHANGED <<notPM, finish_order, items, max_concurrency, status_enabled, raising, progress_calls,
                   last_status, pm_return>>

\* the event loop starts the gathered tasks in list order
StartedBefore(i) == \A j \in 1..(i - 1) : task[j] # "scheduled"

\* the semaphore wakes its waiters in FIFO order, which is index order here
NoEarlierWaiter(i) == \A j \in 1..(i - 1) : task[j] # "waiting"

\* lines 74-78: process_one enters the semaphore (or not) and calls func
PMStart(i) ==
    /\ task[i] = "scheduled"
    /\ StartedBefore(i)
    /\ IF max_concurrency = 0
         THEN /\ task' = [task EXCEPT ![i] = "running"]
              /\ UNCHANGED sem_value
         ELSE IF sem_value > 0 /\ NoEarlierWaiter(i)
                THEN /\ task' = [task EXCEPT ![i] = "running"]
                     /\ sem_value' = sem_value - 1
                ELSE /\ task' = [task EXCEPT ![i] = "waiting"]
                     /\ UNCHANGED sem_value
    /\ UNCHANGED <<notPM, finish_order, items, max_concurrency, status_enabled, raising, pm_pc, results,
                   completed_count, pending_indices, progress_calls, status_task,
                   last_status, pm_return>>

\* line 75: a waiter obtains a released permit
PMAcquire(i) ==
    /\ task[i] = "waiting"
    /\ sem_value > 0
    /\ NoEarlierWaiter(i)
    /\ task' = [task EXCEPT ![i] = "running"]
    /\ sem_value' = sem_value - 1
    /\ UNCHANGED <<notPM, finish_order, items, max_concurrency, status_enabled, raising, pm_pc, results,
                   completed_count, pending_indices, progress_calls, status_task,
                   last_status, pm_return>>

\* a buggy variant: leaving the semaphore hands back two permits
ReleasePermitTwice ==
    IF max_concurrency = 0 THEN sem_value ELSE sem_value + 2

\* lines 74-76: leaving "async with semaphore" hands the permit back
ReleasePermit ==
    IF max_concurrency = 0 THEN sem_value ELSE sem_value + 1

\* lines 63-72: func returned; the rest of _run has no suspension point (the
\* lock is never held across an await, so acquiring it never blocks)
PMFinish(i) ==
    /\ task[i] = "running"
    /\ i \notin raising
    /\ results' = [results EXCEPT
                     ![ResultSlot(i, completed_count)] = FuncValue(items[i], i)]
    /\ pending_indices' = pending_indices \ {i}
    /\ completed_count' = completed_count + 1
    /\ progress_calls' = Append(progress_calls, completed_count + 1)
    /\ sem_value' = ReleasePermit
    /\ task' = [task EXCEPT ![i] = "done"]
    /\ finish_order' = Append(finish_order, i)
    /\ UNCHANGED <<notPM, items, max_concurrency, status_enabled, raising, pm_pc,
                   status_task, last_status, pm_return>>

\* line 63: func raised; the exception leaves _run and process_one
PMFail(i) ==
    /\ task[i] = "running"
    /\ i \in raising
    /\ sem_value' = ReleasePermit
    /\ task' = [task EXCEPT ![i] = "failed"]
    /\ UNCHANGED <<notPM, finish_order, items, max_concurrency, status_enabled, raising, pm_pc, results,
                   completed_count, pending_indices, progress_calls, status_task,
                   last_status, pm_return>>

\* lines 82-89: one wake-up of the status reporter
PMStatusTick ==
    /\ status_task = "sleeping"
    /\ IF Cardinality(pending_indices) = 0
         THEN /\ status_task' = "finished"
              /\ UNCHANGED last_status
         ELSE /\ last_status' = <<completed_count, Cardinality(pending_indices)>>
              /\ UNCHANGED status_task
    /\ UNCHANGED <<notPM, finish_order, items, max_concurrency, status_enabled, raising, pm_pc, task,
                   results, completed_count, pending_indices, sem_value,
                   progress_calls, pm_return>>

\* a buggy variant: the finally block leaves the reporter alone
LeaveStatus == status_task

\* lines 101-107: the finally block cancels the reporter (a no-op when it has
\* finished or was never created) and awaits its end
CancelStatus == IF status_task = "sleeping" THEN "cancelled" ELSE status_task

\* lines 100-109: every task finished without an exception
PMGatherReturn ==
    /\ pm_pc = "gather"
    /\ \A i \in 1..total : task[i] = "done"
    /\ status_task' = CancelStatus
    /\ pm_return' = results
    /\ pm_pc' = "returned"
    /\ UNCHANGED <<notPM, finish_order, items, max_concurrency, status_enabled, raising, task, results,
                   completed_count, pending_indices, sem_value, progress_calls,
                   last_status>>

\* lines 100-107: gather re-raises the first exception of a task; the finally
\* block cancels the reporter and the exception leaves parallel_map
PMGatherRaise ==
    /\ pm_pc = "gather"
    /\ \E i \in 1..total : task[i] = "failed"
    /\ status_task' = CancelStatus
    /\ pm_pc' = "raised"
    /\ UNCHANGED <<notPM, finish_order, items, max_concurrency, status_enabled, raising, task, results,
                   completed_count, pending_indices, sem_value, progress_calls,
                   last_status, pm_return>>

NextPM ==
    \/ PMReturnEmpty
    \/ PMSetup
    \/ \E i \in 1..total : PMStart(i)
    \/ \E i \in 1..total : PMAcquire(i)
    \/ \E i \in 1..total : PMFinish(i)
    \/ \E i \in 1..total : PMFail(i)
    \/ PMStatusTick
    \/ PMGatherReturn
    \/ PMGatherRaise

\* ------------------------------------- Agent.chat_with_tool_calling (base)
\* tool names a response may carry; only the first is registered
ToolNames == {"get_weather", "unknown_tool"}
Registered == {"get_weather"}

ToolCalls == {[name |-> n] : n \in ToolNames}

Text(t) == [kind |-> "text", text |-> t]

\* what the k-th model call of a turn may answer: a text of its own, so that
\* the responses of a turn can be told apart, and any list of tool calls
Responses(k) == {[content |-> Text(ToString(k)), tool_calls |-> tcs] :
                    tcs \in SeqsUpTo(ToolCalls, MaxToolCalls)}

\* what a model call without tools may answer (line 180, use_tools=False):
\* the request carries no tool definitions, so the answer carries no tool call
PlainResponses(k) == {[content |-> Text(ToString(k)), tool_calls |-> <<>>]}

NoResponse == [content |-> Text(""), tool_calls |-> <<>>]

Message(role, content, tcs) == [role |-> role, content |-> content, tool_calls |-> tcs]

\* a buggy variant: every response is taken to carry tool calls
HasToolCallsAlways(resp) == TRUE

\* line 142: response.message.tool_calls is truthy
HasToolCalls(resp) == Len(resp.tool_calls) > 0

IdleAg ==
    /\ messages = <<>>
    /\ max_iterations = 0
    /\ iterations = 0
    /\ ag_pc = "idle"
    /\ response = NoResponse
    /\ tc_pos = 0
    /\ model_calls = 0
    /\ dispatch_phases = 0
    /\ tool_lookups = 0
    /\ tool_runs = 0
    /\ ag_return = Text("")
    /\ responses_log = <<>>

StartAg ==
    /\ messages = <<Message("user", Text("question"), <<>>)>>
    /\ max_iterations \in 0..MaxIterations
    /\ iterations = 0
    /\ ag_pc = "loop"
    /\ response = NoResponse
    /\ tc_pos = 0
    /\ model_calls = 0
    /\ dispatch_phases = 0
    /\ tool_lookups = 0
    /\ tool_runs = 0
    /\ ag_return = Text("")
    /\ responses_log = <<>>

\* a buggy variant: the loop is entered once more than max_iterations
WithinIterationsOrOneMore(it, max) ==
    it <= max

\* line 132: while iterations < max_iterations
WithinIterations(it, max) ==
    it < max

\* lines 132-147: one pass of the while loop up to the tool loop
AgModelCall(resp) ==
    /\ ag_pc = "loop"
    /\ WithinIterations(iterations, max_iterations)
    /\ model_calls' = model_calls + 1
    /\ responses_log' = Append(responses_log, resp)
    /\ IF ~HasToolCalls(resp)
         THEN /\ ag_return' = resp.content
              /\ ag_pc' = "returned"
              /\ UNCHANGED <<messages, response, tc_pos, dispatch_phases>>
         ELSE /\ messages' = Append(messages,
                                Message("assistant", resp.content, resp.tool_calls))
              /\ response' = resp
              /\ tc_pos' = 1
              /\ dispatch_phases' = dispatch_phases + 1
              /\ ag_pc' = "dispatch"
              /\ UNCHANGED ag_return
    /\ UNCHANGED <<notAg, max_iterations, iterations, tool_lookups, tool_runs>>

\* lines 150-173: one tool call; ok says whether a registered callable returns
AgDispatch(ok) ==
    /\ ag_pc = "dispatch"
    /\ tc_pos <= Len(response.tool_calls)
    /\ LET function_name == response.tool_calls[tc_pos].name
           found == function_name \in Registered
       IN /\ tool_lookups' = tool_lookups + 1
          /\ tool_runs' = IF found THEN tool_runs + 1 ELSE tool_runs
          /\ messages' = Append(messages,
                IF found /\ ok
                  THEN Message("tool", [kind |-> "result", text |-> function_name], <<>>)
                  ELSE Message("tool", [kind |-> "error", text |-> function_name], <<>>))
    /\ tc_pos' = tc_pos + 1
    /\ UNCHANGED <<notAg, max_iterations, iterations, ag_pc, response, model_calls,
                   dispatch_phases, ag_return, responses_log>>

\* line 175: the tool loop is over
AgDispatchEnd ==
    /\ ag_pc = "dispatch"
    /\ tc_pos > Len(response.tool_calls)
    /\ iterations' = iterations + 1
    /\ ag_pc' = "loop"
    /\ UNCHANGED <<notAg, messages, max_iterations, response, tc_pos, model_calls,
                   dispatch_phases, tool_lookups, tool_runs, ag_return, responses_log>>

\* lines 177-185: max_iterations reached, one call without tools
AgFinalCall(resp) ==
    /\ ag_pc = "loop"
    /\ ~WithinIterations(iterations, max_iterations)
    /\ model_calls' = model_calls + 1
    /\ responses_log' = Append(responses_log, resp)
    /\ ag_return' = resp.content
    /\ ag_pc' = "returned"
    /\ UNCHANGED <<notAg, messages, max_iterations, iterations, response, tc_pos,
                   dispatch_phases, tool_lookups, tool_runs>>

NextAg ==
    \/ \E resp \in Responses(model_calls + 1) : AgModelCall(resp)
    \/ \E ok \in BOOLEAN : AgDispatch(ok)
    \/ AgDispatchEnd
    \/ \E resp \in PlainResponses(model_calls + 1) : AgFinalCall(resp)

\* ------------------------------------------------------- cmd_chat (cli.py)
\* lines 182-186: available_functions
AvailableFunctions == {"rank_papers", "create_profile", "deep_research"}
CliToolNames == AvailableFunctions \cup {"unknown_tool"}
CliToolCalls == {[name |-> n] : n \in CliToolNames}
Contents == {"t1", "t2"}
CliResponses == {[content |-> Text(c), tool_calls |-> tcs] :
                    c \in Contents, tcs \in SeqsUpTo(CliToolCalls, MaxToolCalls)}

IdleCli ==
    /\ chat_history = <<>>
    /\ cli_pc = "idle"
    /\ response_text = Text("")
    /\ cli_tool_calls = <<>>
    /\ cli_pos = 0
    /\ cli_turns = 0
    /\ cli_escaped = "none"
    /\ cli_dispatched = 0
    /\ cli_tool_msgs = 0

StartCli ==
    /\ chat_history = <<Message("system", Text("user_context"), <<>>)>>
    /\ cli_pc = "prompt"
    /\ response_text = Text("")
    /\ cli_tool_calls = <<>>
    /\ cli_pos = 0
    /\ cli_turns = 0
    /\ cli_escaped = "none"
    /\ cli_dispatched = 0
    /\ cli_tool_msgs = 0

\* lines 174-228 and 262-267: the user message, the streamed response and the
\* assistant message it leads to
CliUserInput(resp) ==
    /\ cli_pc = "prompt"
    /\ cli_turns < MaxTurns
    /\ cli_turns' = cli_turns + 1
    /\ response_text' = resp.content
    /\ cli_tool_calls' = resp.tool_calls
    /\ LET withUser == Append(chat_history, Message("user", Text("input"), <<>>))
       IN IF Len(resp.tool_calls) > 0
            THEN /\ chat_history' = Append(withUser,
                        Message("assistant", resp.content, resp.tool_calls))
                 /\ cli_pos' = 1
                 /\ cli_pc' = "dispatch"
            ELSE /\ chat_history' = Append(withUser,
                        Message("assistant", resp.content, <<>>))
                 /\ cli_pos' = 0
                 /\ cli_pc' = "prompt"
    /\ UNCHANGED <<notCli, cli_escaped, cli_dispatched, cli_tool_msgs>>

\* lines 174-204, 272-273: chat() raises; the handler of the session loop
\* prints the error and the next input is read
CliModelFails ==
    /\ cli_pc = "prompt"
    /\ cli_turns < MaxTurns
    /\ cli_turns' = cli_turns + 1
    /\ chat_history' = Append(chat_history, Message("user", Text("input"), <<>>))
    /\ cli_escaped' = "chat"
    /\ UNCHANGED <<notCli, cli_pc, response_text, cli_tool_calls, cli_pos,
                   cli_dispatched, cli_tool_msgs>>

\* lines 230-257: one tool call; outcome is what the function does
CliDispatch(outcome) ==
    /\ cli_pc = "dispatch"
    /\ cli_pos <= Len(cli_tool_calls)
    /\ cli_dispatched' = cli_dispatched + 1
    /\ LET function_name == cli_tool_calls[cli_pos].name
       IN IF function_name \notin AvailableFunctions
            THEN \* line 234: the call is skipped
                 /\ outcome = "return_success"
                 /\ cli_pos' = cli_pos + 1
                 /\ UNCHANGED <<chat_history, cli_pc, cli_escaped, cli_tool_msgs>>
            ELSE IF outcome = "raise"
                   THEN \* lines 236, 272: the exception ends the turn
                        /\ cli_escaped' = "tool"
                        /\ cli_pc' = "prompt"
                        /\ UNCHANGED <<chat_history, cli_pos, cli_tool_msgs>>
                   ELSE /\ LET reloaded ==
                                 IF outcome = "return_success" /\ function_name = "create_profile"
                                   THEN [chat_history EXCEPT ![1] =
                                           Message("system", Text("user_context_reloaded"), <<>>)]
                                   ELSE chat_history
                               kind == IF outcome = "return_success" THEN "result" ELSE "error"
                           IN chat_history' = Append(reloaded,
                                 Message("tool", [kind |-> kind, text |-> function_name], <<>>))
                        /\ cli_tool_msgs' = cli_tool_msgs + 1
                        /\ cli_pos' = cli_pos + 1
                        /\ UNCHANGED <<cli_pc, cli_escaped>>
    /\ UNCHANGED <<notCli, response_text, cli_tool_calls, cli_turns>>

\* lines 259-267: after the tool loop the response text is appended
CliFinish ==
    /\ cli_pc = "dispatch"
    /\ cli_pos > Len(cli_tool_calls)
    /\ chat_history' = Append(chat_history, Message("assistant", response_text, <<>>))
    /\ cli_pc' = "prompt"
    /\ UNCHANGED <<notCli, response_text, cli_tool_calls, cli_pos, cli_turns,
                   cli_escaped, cli_dispatched, cli_tool_msgs>>

NextCli ==
    \/ \E resp \in CliResponses : CliUserInput(resp)
    \/ CliModelFails
    \/ \E outcome \in {"return_success", "return_failure", "raise"} : CliDispatch(outcome)
    \/ CliFinish

\* ------------------------------------------- MainAgent.chat (main/agent.py)
Indices == {0, 1}
\* the arguments strings a tool call may have, as sequences of characters
ArgStrings == {<<"a", "b">>, <<"b", "a", "a">>}
FragmentIds == {"", "call_1", "call_2"}
NameParts == {<<>>, <<"f">>}

ContentEvent == [type |-> "content", error |-> FALSE, data |-> <<>>]
ErrorEvent == [type |-> "content", error |-> TRUE, data |-> <<>>]
ToolCallsEvent(calls) == [type |-> "tool_calls", error |-> FALSE, data |-> calls]

IdleSt ==
    /\ st_pc = "idle"
    /\ accumulated_tool_calls = <<>>
    /\ events = <<>>
    /\ st_lines = 0
    /\ st_target = [i \in Indices |-> <<>>]
    /\ st_sent = [i \in Indices |-> 0]
    /\ st_frags = [i \in Indices |-> 0]
    /\ st_failure = "none"

StartSt ==
    /\ st_pc = "request"
    /\ accumulated_tool_calls = <<>>
    /\ events = <<>>
    /\ st_lines = 0
    /\ st_target \in [Indices -> ArgStrings]
    /\ st_sent = [i \in Indices |-> 0]
    /\ st_frags = [i \in Indices |-> 0]
    /\ st_failure = "none"

\* position of index idx in the dict, 0 when it is not a key
SlotOf(acc, idx) ==
    IF \E k \in 1..Len(acc) : acc[k].index = idx
      THEN CHOOSE k \in 1..Len(acc) : acc[k].index = idx
      ELSE 0

\* a buggy variant: the fragment replaces what was accumulated
OverwriteArguments(old, part) == IF part = <<>> THEN old ELSE part

\* lines 475-476: arguments += func["arguments"]
AppendArguments(old, part) == old \o part

\* lines 461-476: fold one tool-call fragment into the dict
Accumulate(acc, tc) ==
    LET created == IF SlotOf(acc, tc.index) = 0
                     THEN Append(acc, [index |-> tc.index, id |-> tc.id,
                                       name |-> <<>>, arguments |-> <<>>])
                     ELSE acc
        k == SlotOf(created, tc.index)
        old == created[k]
    IN [created EXCEPT ![k] =
          [index |-> old.index,
           id |-> IF tc.id # "" THEN tc.id ELSE old.id,
           name |-> old.name \o tc.name,
           arguments |-> AppendArguments(old.arguments, tc.arguments)]]

\* lines 440-441: the connection is made and the status is not an error
StConnect ==
    /\ st_pc = "request"
    /\ st_pc' = "reading"
    /\ UNCHANGED <<notSt, accumulated_tool_calls, events, st_lines, st_target,
                   st_sent, st_frags, st_failure>>

\* lines 453-455: a frame with content
StContent ==
    /\ st_pc = "reading"
    /\ st_lines < MaxLines
    /\ st_lines' = st_lines + 1
    /\ events' = Append(events, ContentEvent)
    /\ UNCHANGED <<notSt, st_pc, accumulated_tool_calls, st_target, st_sent,
                   st_frags, st_failure>>

\* lines 459-476: a frame with one tool-call fragment, carrying the next n
\* characters of the arguments of index idx
StFragment(idx, id, name, n) ==
    /\ st_pc = "reading"
    /\ st_lines < MaxLines
    /\ st_sent[idx] + n <= Len(st_target[idx])
    /\ st_lines' = st_lines + 1
    /\ LET part == SubSeq(st_target[idx], st_sent[idx] + 1, st_sent[idx] + n)
       IN accumulated_tool_calls' =
             Accumulate(accumulated_tool_calls,
                        [index |-> idx, id |-> id, name |-> name, arguments |-> part])
    /\ st_sent' = [st_sent EXCEPT ![idx] = @ + n]
    /\ st_frags' = [st_frags EXCEPT ![idx] = IF n > 0 THEN @ + 1 ELSE @]
    /\ UNCHANGED <<notSt, st_pc, events, st_target, st_failure>>

\* lines 443-444, 478-479: an empty line, a line that is no data line, or a
\* data line that is not JSON
StSkippedLine ==
    /\ st_pc = "reading"
    /\ st_lines < MaxLines
    /\ st_lines' = st_lines + 1
    /\ UNCHANGED <<notSt, st_pc, accumulated_tool_calls, events, st_target, st_sent,
                   st_frags, st_failure>>

\* lines 481-483: what is yielded once the loop over the lines is left
EndOfStreamEvents(evs, acc) ==
    IF Len(acc) > 0 THEN Append(evs, ToolCallsEvent(acc)) ELSE evs

\* lines 446-447, 481-483: the [DONE] frame
StDone ==
    /\ st_pc = "reading"
    /\ events' = EndOfStreamEvents(events, accumulated_tool_calls)
    /\ st_pc' = "finished"
    /\ UNCHANGED <<notSt, accumulated_tool_calls, st_lines, st_target, st_sent,
                   st_frags, st_failure>>

\* lines 442, 481-483: iter_lines is exhausted without a [DONE] frame
StEndOfStream ==
    /\ st_pc = "reading"
    /\ events' = EndOfStreamEvents(events, accumulated_tool_calls)
    /\ st_pc' = "truncated"
    /\ UNCHANGED <<notSt, accumulated_tool_calls, st_lines, st_target, st_sent,
                   st_frags, st_failure>>

\* a buggy variant: the accumulated tool calls are flushed before the error
ErrorAfterFlush(evs, acc) == Append(EndOfStreamEvents(evs, acc), ErrorEvent)

\* lines 485-486: the handler of the try block
OnException(evs, acc) == Append(evs, ErrorEvent)

\* lines 440-442, 450, 485-486: an exception inside the try block. "connect":
\* requests.post raises; "http": raise_for_status raises; "read": iter_lines
\* raises; "frame": a JSON frame without the expected shape (line 450)
StFail(kind) ==
    /\ \/ st_pc = "request" /\ kind \in {"connect", "http"}
       \/ st_pc = "reading" /\ kind \in {"read", "frame"}
    /\ st_failure' = kind
    /\ events' = OnException(events, accumulated_tool_calls)
    /\ st_pc' = "finished"
    /\ UNCHANGED <<notSt, accumulated_tool_calls, st_lines, st_target, st_sent,
                   st_frags>>

NextSt ==
    \/ StConnect
    \/ StContent
    \/ \E idx \in Indices, id \in FragmentIds, name \in NameParts :
          \E n \in 0..Len(st_target[idx]) : StFragment(idx, id, name, n)
    \/ StSkippedLine
    \/ StDone
    \/ StEndOfStream
    \/ \E kind \in {"connect", "http", "read", "frame"} : StFail(kind)

\* ------------------------- _retrieve_deduplicated (deep_research/agent.py)
Questions == {"q1", "q2"}
ChunkIds == {"c1", "c2", "c3", "c4"}

\* the sequences of n distinct elements of S
DistinctSeqs(S, n) == {f \in [1..n -> S] : \A i, j \in 1..n : i # j => f[i] # f[j]}

\* a retriever answers a question with its top-k chunks, best first
Retrievers == [Questions -> DistinctSeqs(ChunkIds, similarity_top_k)]

\* the nodes retriever.retrieve(question) returns: the chunk and, standing for
\* the score it got for this question, the question and the rank
Retrieve(r, question) ==
    [k \in 1..Len(r[question]) |->
        [node_id |-> r[question][k], question |-> question, rank |-> k]]

IdleDd ==
    /\ questions = <<>>
    /\ retriever = [q \in Questions |-> <<>>]
    /\ dd_pc = "idle"
    /\ q_pos = 0
    /\ all_chunks = <<>>
    /\ chunk_ids_seen = {}

StartDd ==
    /\ questions \in SeqsUpTo(Questions, MaxQuestions)
    /\ retriever \in Retrievers
    /\ dd_pc = "loop"
    /\ q_pos = 1
    /\ all_chunks = <<>>
    /\ chunk_ids_seen = {}

\* a buggy variant: a later duplicate replaces the chunk kept for its id
MergeNodeOverwrite(chunks, seen, node) ==
    IF node.node_id \notin seen
      THEN Append(chunks, node)
      ELSE [k \in 1..Len(chunks) |->
              IF chunks[k].node_id = node.node_id THEN node ELSE chunks[k]]

\* a buggy variant: no test of chunk_ids_seen
MergeNodeNoDedup(chunks, seen, node) == Append(chunks, node)

\* lines 257-260: all_chunks after one node
MergeNode(chunks, seen, node) ==
    IF node.node_id \notin seen THEN Append(chunks, node) ELSE chunks

RECURSIVE MergeNodes(_, _, _)
\* lines 256-261: the loop over the nodes of one question; the result is
\* <<all_chunks, chunk_ids_seen>>
MergeNodes(chunks, seen, nodes) ==
    IF nodes = <<>>
      THEN <<chunks, seen>>
      ELSE MergeNodes(MergeNode(chunks, seen, Head(nodes)),
                      seen \cup {Head(nodes).node_id},
                      Tail(nodes))

\* lines 253-263: one question
DDRetrieve ==
    /\ dd_pc = "loop"
    /\ q_pos <= Len(questions)
    /\ LET nodes == Retrieve(retriever, questions[q_pos])
           merged == MergeNodes(all_chunks, chunk_ids_seen, nodes)
       IN /\ all_chunks' = merged[1]
          /\ chunk_ids_seen' = merged[2]
    /\ q_pos' = q_pos + 1
    /\ UNCHANGED <<notDd, questions, retriever, dd_pc>>

\* lines 265-266
DDReturn ==
    /\ dd_pc = "loop"
    /\ q_pos > Len(questions)
    /\ dd_pc' = "returned"
    /\ UNCHANGED <<notDd, questions, retriever, q_pos, all_chunks, chunk_ids_seen>>

NextDd ==
    \/ DDRetrieve
    \/ DDReturn

\* ------------------------ rank_papers_parallel (subagents/papers_ranking)
PaperIds == <<"p1", "p2", "p3", "p4", "p5">>

NoScore == [id |-> "", score |-> -1, reason |-> ""]

\* a buggy variant: the failure is reported as the lowest real score
ScoreOnePaperMasked(paper_id, out) ==
    [id |-> paper_id, score |-> IF out = 0 THEN 1 ELSE out, reason |-> "reason"]

\* lines 46-64: what score_one_paper returns; out = 0 stands for agent.run
\* raising, another value for the score of its output
ScoreOnePaper(paper_id, out) ==
    IF out = 0
      THEN [id |-> paper_id, score |-> 0, reason |-> "Error"]
      ELSE [id |-> paper_id, score |-> out, reason |-> "reason"]

\* a buggy variant: the entries are left in input order
KeepOrder(rs) ==
    rs

RECURSIVE InsertByScore(_, _)
\* x placed after the entries whose score is not lower (the sort is stable)
InsertByScore(sorted, x) ==
    IF sorted = <<>>
      THEN <<x>>
      ELSE IF Head(sorted).score >= x.score
             THEN <<Head(sorted)>> \o InsertByScore(Tail(sorted), x)
             ELSE <<x>> \o sorted

RECURSIVE SortedByScore(_)
\* line 95: sorted(results, key=score, reverse=True)
SortedByScore(rs) ==
    IF rs = <<>>
      THEN <<>>
      ELSE InsertByScore(SortedByScore(SubSeq(rs, 1, Len(rs) - 1)), rs[Len(rs)])

\* util.py lines 41-50: the tier a score is filed under
Tier(score) ==
    IF score >= 9 THEN "Must Read (9-10)"
    ELSE IF score >= 7 THEN "Highly Relevant (7-8)"
    ELSE IF score >= 5 THEN "Moderately Relevant (5-6)"
    ELSE IF score >= 3 THEN "Low Relevance (3-4)"
    ELSE "Not Relevant (1-2)"

\* a buggy variant: the score is shown inside its tier's range, without reason
PaperLinesClamped(r) ==
    <<[kind |-> "paper", score |-> IF r.score < 1 THEN 1 ELSE r.score,
       reason |-> "", id |-> r.id]>>

\* util.py lines 57-60: the lines of one result (score, reason and id)
PaperLines(r) ==
    <<[kind |-> "paper", score |-> r.score, reason |-> r.reason, id |-> r.id]>>

RECURSIVE FormatFrom(_, _)
\* util.py lines 37-60: the loop over the results; a heading is written when
\* the tier changes
FormatFrom(rs, current_tier) ==
    IF rs = <<>>
      THEN <<>>
      ELSE LET tier == Tier(Head(rs).score)
               heading == IF tier # current_tier
                            THEN <<[kind |-> "tier", score |-> -1, reason |-> tier,
                                    id |-> ""]>>
                            ELSE <<>>
           IN  heading \o PaperLines(Head(rs)) \o FormatFrom(Tail(rs), tier)

\* util.py lines 22-62: format_ranking_results
format_ranking_results(rs) ==
    IF rs = <<>>
      THEN <<[kind |-> "empty", score |-> -1, reason |-> "No papers ranked.", id |-> ""]>>
      ELSE FormatFrom(rs, "None")

IdleRk ==
    /\ papers = <<>>
    /\ run_outcome = <<>>
    /\ rk_pc = "idle"
    /\ rk_task = <<>>
    /\ rk_results = <<>>
    /\ rk_return = <<>>

StartRk ==
    /\ \E n \in 0..MaxPapers :
          /\ papers = SubSeq(PaperIds, 1, n)
          /\ run_outcome \in [1..n -> 0..MaxScore]
          /\ rk_task = [i \in 1..n |-> "scheduled"]
          /\ rk_results = [i \in 1..n |-> NoScore]
    /\ rk_pc = "gather"
    /\ rk_return = <<>>

\* gather starts the coroutines in list order
RkStartedBefore(i) == \A j \in 1..(i - 1) : rk_task[j] # "scheduled"

\* lines 35-47: score_one_paper runs up to its await of agent.run
RKStart(i) ==
    /\ rk_pc = "gather"
    /\ rk_task[i] = "scheduled"
    /\ RkStartedBefore(i)
    /\ rk_task' = [rk_task EXCEPT ![i] = "running"]
    /\ UNCHANGED <<notRk, papers, run_outcome, rk_pc, rk_results, rk_return>>

\* lines 47-64: agent.run returns or raises and score_one_paper returns
RKFinish(i) ==
    /\ rk_pc = "gather"
    /\ rk_task[i] = "running"
    /\ rk_results' = [rk_results EXCEPT ![i] = ScoreOnePaper(papers[i], run_outcome[i])]
    /\ rk_task' = [rk_task EXCEPT ![i] = "done"]
    /\ UNCHANGED <<notRk, papers, run_outcome, rk_pc, rk_return>>

\* lines 92-95: gather returns the results in task order and they are sorted
RKReturn ==
    /\ rk_pc = "gather"
    /\ \A i \in 1..Len(papers) : rk_task[i] = "done"
    /\ rk_return' = SortedByScore(rk_results)
    /\ rk_pc' = "returned"
    /\ UNCHANGED <<notRk, papers, run_outcome, rk_task, rk_results>>

NextRk ==
    \/ \E i \in 1..Len(papers) : RKStart(i)
    \/ \E i \in 1..Len(papers) : RKFinish(i)
    \/ RKReturn

\* ------------------------------- papers-ranking Agent.run (papers_ranking)
\* The papers of the date directory and, for each, the integers its three
\* branches answer; 0 stands for an answer int(json.loads(..)["value"]) rejects.
Catalogue == <<"A", "B", "C", "D", "E", "F", "G">>

ForkOutputs(paper_id) ==
    CASE paper_id = "A" -> <<5, 5, 5>>
      [] paper_id = "B" -> <<1, 2, 3>>
      [] paper_id = "C" -> <<4, 4, 4>>
      [] paper_id = "D" -> <<3, 4, 5>>
      [] paper_id = "E" -> <<1, 1, 1>>
      [] paper_id = "F" -> <<4, 5, 5>>
      [] OTHER -> <<2, 0, 2>>

Pending == -1
Unparsable == 0
NoScores == <<>>
NoReturn == [kind |-> "none"]

RECURSIVE SumSeq(_)
SumSeq(xs) == IF xs = <<>> THEN 0 ELSE Head(xs) + SumSeq(Tail(xs))

\* a buggy variant: the mean cut to one decimal instead of rounded
TruncTenths(sum, len) == (10 * sum) \div len

\* line 287: round(sum / len, 1), in tenths; the built-in rounds to the
\* nearest tenth and a value halfway between two tenths goes to the even one
RoundTenths(sum, len) ==
    LET q == (10 * sum) \div len
        r == (10 * sum) % len
    IN  IF 2 * r > len THEN q + 1
        ELSE IF 2 * r < len THEN q
        ELSE IF q % 2 = 0 THEN q ELSE q + 1

IdleFk ==
    /\ fk_papers = <<>>
    /\ fk_pc = "idle"
    /\ fk_worker = <<>>
    /\ fork_score = <<>>
    /\ state_score = <<>>
    /\ fk_results = <<>>
    /\ fk_return = NoReturn

\* lines 262-278: the papers are loaded and run_batch starts one program per
\* paper; each program forks num_forks branches (lines 148-172)
StartFk ==
    /\ \E n \in 0..MaxPapers :
         \E pick \in [1..n -> 1..Len(Catalogue)] :
            /\ \A i \in 1..n : \A j \in 1..n : i < j => pick[i] < pick[j]
            /\ fk_papers = [i \in 1..n |-> Catalogue[pick[i]]]
            /\ fk_worker = [i \in 1..n |-> "running"]
            /\ fork_score = [i \in 1..n |-> [k \in 1..num_forks |-> Pending]]
            /\ state_score = [i \in 1..n |-> NoScores]
    /\ fk_pc = "batch"
    /\ fk_results = <<>>
    /\ fk_return = NoReturn

\* lines 264-265: no paper for the date
FkReturnNoPapers ==
    /\ fk_pc = "batch"
    /\ fk_papers = <<>>
    /\ fk_return' = [kind |-> "error"]
    /\ fk_pc' = "returned"
    /\ UNCHANGED <<notFk, fk_papers, fk_worker, fork_score, state_score, fk_results>>

\* lines 157-172: branch k of paper i finishes its two generations
FkForkDone(i, k) ==
    /\ fk_pc = "batch"
    /\ fk_worker[i] = "running"
    /\ fork_score[i][k] = Pending
    /\ fork_score' = [fork_score EXCEPT ![i][k] = ForkOutputs(fk_papers[i])[k]]
    /\ UNCHANGED <<notFk, fk_papers, fk_pc, fk_worker, state_score, fk_results,
                   fk_return>>

\* a buggy variant: the join goes on as soon as one branch has answered
ForksJoinedEarly(i) ==
    \E k \in 1..num_forks : fork_score[i][k] # Pending

\* lines 176-177: reading a variable of a fork waits for that fork
ForksJoined(i) ==
    \A k \in 1..num_forks : fork_score[i][k] # Pending

\* line 177: the scores of the branches read so far, in fork order
CollectScores(i) ==
    SelectSeq(fork_score[i], LAMBDA v : v # Pending)

\* lines 176-181: the scores of all branches are read and stored in s["score"]
FkJoin(i) ==
    /\ fk_pc = "batch"
    /\ fk_worker[i] = "running"
    /\ ForksJoined(i)
    /\ \A k \in 1..Len(CollectScores(i)) : CollectScores(i)[k] # Unparsable
    /\ state_score' = [state_score EXCEPT ![i] = CollectScores(i)]
    /\ fk_worker' = [fk_worker EXCEPT ![i] = "done"]
    /\ UNCHANGED <<notFk, fk_papers, fk_pc, fork_score, fk_results, fk_return>>

\* line 177: the list comprehension reads the forks in order and raises at the
\* first answer that does not parse; line 181 is not reached
FkJoinFail(i) ==
    /\ fk_pc = "batch"
    /\ fk_worker[i] = "running"
    /\ \E k \in 1..num_forks :
          /\ \A j \in 1..k : fork_score[i][j] # Pending
          /\ fork_score[i][k] = Unparsable
    /\ fk_worker' = [fk_worker EXCEPT ![i] = "failed"]
    /\ UNCHANGED <<notFk, fk_papers, fk_pc, fork_score, state_score, fk_results,
                   fk_return>>

\* lines 282-306: one results entry per state, in the order of the papers
ExtractResults ==
    [i \in 1..Len(fk_papers) |->
        [id |-> fk_papers[i],
         score |-> RoundTenths(SumSeq(state_score[i]), Len(state_score[i]))]]

\* lines 276-335: run_batch has returned every state; the results are built,
\* sorted by score and returned
FkReturn ==
    /\ fk_pc = "batch"
    /\ fk_papers # <<>>
    /\ \A i \in 1..Len(fk_papers) : fk_worker[i] = "done"
    /\ fk_results' = ExtractResults
    /\ fk_return' = [kind |-> "ranking",
                     paper_count |-> Len(fk_papers),
                     scores |-> SortedByScore(ExtractResults)]
    /\ fk_pc' = "returned"
    /\ UNCHANGED <<notFk, fk_papers, fk_worker, fork_score, state_score>>

\* lines 276-286: a program that raised has no "score" variable; the batch
\* call or the read of state["score"] raises and nothing is returned
FkRaise ==
    /\ fk_pc = "batch"
    /\ \A i \in 1..Len(fk_papers) : fk_worker[i] # "running"
    /\ \E i \in 1..Len(fk_papers) : fk_worker[i] = "failed"
    /\ fk_pc' = "raised"
    /\ UNCHANGED <<notFk, fk_papers, fk_worker, fork_score, state_score,
                   fk_results, fk_return>>

NextFk ==
    \/ FkReturnNoPapers
    \/ \E i \in 1..Len(fk_papers) : \E k \in 1..num_forks : FkForkDone(i, k)
    \/ \E i \in 1..Len(fk_papers) : FkJoin(i)
    \/ \E i \in 1..Len(fk_papers) : FkJoinFail(i)
    \/ FkReturn
    \/ FkRaise

\* ------------------------------ deep-research Agent.run (deep_research)
ChunkOrder == <<"c1", "c2", "c3", "c4">>

\* the chunks of an index of the given size
IndexChunks(size) == {ChunkOrder[k] : k \in 1..size}

Min(a, b) == IF a < b THEN a ELSE b

\* a buggy variant: a retriever that answers with every chunk of the index
NodesPerQuestionAll(size) ==
    size

\* line 141: the retriever answers with the similarity_top_k best chunks, or
\* with all of them when the index holds fewer
NodesPerQuestion(size) ==
    Min(similarity_top_k, size)

IndexRetrievers(size) ==
    [Questions -> DistinctSeqs(IndexChunks(size), NodesPerQuestion(size))]

\* the lines of the generation output once the think tags are removed: a
\* question numbered "1.", a question numbered "1)", or a line of prose
OutputLines ==
    {[form |-> "dotted", text |-> "q1"], [form |-> "dotted", text |-> "q2"],
     [form |-> "paren", text |-> "q1"], [form |-> "prose", text |-> ""]}

RECURSIVE _parse_questions(_)
\* lines 226-234: the text of every line that matches ^\s*\d+\.\s*(.+)$
_parse_questions(lines) ==
    IF lines = <<>>
      THEN <<>>
      ELSE (IF Head(lines).form = "dotted" THEN <<Head(lines).text>> ELSE <<>>)
              \o _parse_questions(Tail(lines))

\* a buggy variant: an empty question list is let through
NoQuestionsIgnored(qs) ==
    FALSE

\* line 136: if not exploration_questions
NoQuestions(qs) ==
    qs = <<>>

RECURSIVE RetrieveDeduplicated(_, _, _, _)
\* lines 250-266: _retrieve_deduplicated, the loop over the questions
RetrieveDeduplicated(r, qs, chunks, seen) ==
    IF qs = <<>>
      THEN chunks
      ELSE LET merged == MergeNodes(chunks, seen, Retrieve(r, Head(qs)))
           IN  RetrieveDeduplicated(r, Tail(qs), merged[1], merged[2])

\* lines 330-361: "found", "none" or "raises" (iterdir of a missing root)
_find_paper ==
    IF date_given
      THEN IF papers_state = "present" THEN "found" ELSE "none"
      ELSE CASE papers_state = "root_missing" -> "raises"
             [] papers_state = "present" -> "found"
             [] OTHER -> "none"

\* lines 163-170: "none", "raises" (json.loads), "empty" or "abstract"
_load_abstract ==
    CASE metadata_state = "missing" -> "none"
      [] metadata_state = "malformed" -> "raises"
      [] metadata_state = "no_summary" -> "empty"
      [] OTHER -> "abstract"

IdleRs ==
    /\ rs_pc = "idle"
    /\ date_given = FALSE
    /\ papers_state = "root_missing"
    /\ metadata_state = "missing"
    /\ index_exists = FALSE
    /\ total_chunks = 0
    /\ exploration_questions = <<>>
    /\ rs_all_chunks = <<>>
    /\ generation_calls = 0
    /\ retrieval_calls = 0
    /\ answer_calls = 0
    /\ rs_return = "none"

StartRs ==
    /\ rs_pc = "prepare"
    /\ date_given \in BOOLEAN
    /\ papers_state \in {"root_missing", "date_missing", "paper_missing", "present"}
    /\ metadata_state \in {"missing", "malformed", "no_summary", "ok"}
    /\ index_exists \in BOOLEAN
    /\ total_chunks \in 0..Len(ChunkOrder)
    /\ papers_state # "present" => metadata_state = "missing" /\ ~index_exists
    /\ ~index_exists => total_chunks = 0
    /\ exploration_questions = <<>>
    /\ rs_all_chunks = <<>>
    /\ generation_calls = 0
    /\ retrieval_calls = 0
    /\ answer_calls = 0
    /\ rs_return = "none"

\* lines 106-128: the paper, its abstract and its index are looked up
RsPrepare ==
    /\ rs_pc = "prepare"
    /\ LET outcome_ ==
              CASE _find_paper = "raises" -> <<"raised", "none">>
                [] _find_paper = "none" -> <<"returned", "paper_not_found">>
                [] _load_abstract = "raises" -> <<"raised", "none">>
                [] _load_abstract \in {"none", "empty"} -> <<"returned", "no_metadata">>
                [] ~index_exists -> <<"returned", "index_not_found">>
                [] OTHER -> <<"generate", "none">>
       IN  /\ rs_pc' = outcome_[1]
           /\ rs_return' = outcome_[2]
    /\ UNCHANGED <<notRs, date_given, papers_state, metadata_state, index_exists,
                   total_chunks, exploration_questions, rs_all_chunks,
                   generation_calls, retrieval_calls, answer_calls>>

\* lines 130-137: the questions are generated and parsed
RsGenerate ==
    /\ rs_pc = "generate"
    /\ generation_calls' = generation_calls + 1
    /\ \E lines \in SeqsUpTo(OutputLines, MaxOutputLines) :
          /\ exploration_questions' = _parse_questions(lines)
          /\ IF NoQuestions(_parse_questions(lines))
               THEN rs_pc' = "returned" /\ rs_return' = "failed_questions"
               ELSE rs_pc' = "retrieve" /\ UNCHANGED rs_return
    /\ UNCHANGED <<notRs, date_given, papers_state, metadata_state, index_exists,
                   total_chunks, rs_all_chunks, retrieval_calls, answer_calls>>

\* lines 139-144: retrieval over all questions
RsRetrieve ==
    /\ rs_pc = "retrieve"
    /\ retrieval_calls' = retrieval_calls + 1
    /\ \E r \in IndexRetrievers(total_chunks) :
          rs_all_chunks' = RetrieveDeduplicated(r, exploration_questions, <<>>, {})
    /\ rs_pc' = "answer"
    /\ UNCHANGED <<notRs, date_given, papers_state, metadata_state, index_exists,
                   total_chunks, exploration_questions, generation_calls,
                   answer_calls, rs_return>>

\* lines 146-161: the answer is generated and returned
RsAnswer ==
    /\ rs_pc = "answer"
    /\ answer_calls' = answer_calls + 1
    /\ rs_pc' = "returned"
    /\ rs_return' = "answer"
    /\ UNCHANGED <<notRs, date_given, papers_state, metadata_state, index_exists,
                   total_chunks, exploration_questions, rs_all_chunks,
                   generation_calls, retrieval_calls>>

NextRs ==
    \/ RsPrepare
    \/ RsGenerate
    \/ RsRetrieve
    \/ RsAnswer

\* ------------------------------------------- handle_query (server.py)
SessionKeys == {"u1:s1", "u1:s2"}

\* result.all_messages(): the history handed to the run followed by the
\* messages of this run (the query and the answer)
AllMessages(history, r) ==
    history \o <<[request |-> r, role |-> "user"], [request |-> r, role |-> "assistant"]>>

IdleHq ==
    /\ _sessions = [key \in SessionKeys |-> <<>>]
    /\ hq_key = <<>>
    /\ hq_pc = <<>>
    /\ hq_history = <<>>

\* the store is empty and the requests have not reached the server yet
StartHq ==
    /\ _sessions = [key \in SessionKeys |-> <<>>]
    /\ \E n \in 1..MaxRequests :
          /\ hq_key \in [1..n -> SessionKeys]
          /\ hq_pc = [r \in 1..n |-> "pending"]
          /\ hq_history = [r \in 1..n |-> <<>>]

\* lines 37-46: the stored history is read and run_agent is awaited
HqRead(r) ==
    /\ hq_pc[r] = "pending"
    /\ hq_history' = [hq_history EXCEPT ![r] = _sessions[hq_key[r]]]
    /\ hq_pc' = [hq_pc EXCEPT ![r] = "running"]
    /\ UNCHANGED <<notHq, _sessions, hq_key>>

\* lines 53-56: the run is over and
\* all its messages are stored under the session key
HqStore(r) ==
    /\ hq_pc[r] = "running"
    /\ _sessions' = [_sessions EXCEPT ![hq_key[r]] = AllMessages(hq_history[r], r)]
    /\ hq_pc' = [hq_pc EXCEPT ![r] = "done"]
    /\ UNCHANGED <<notHq, hq_key, hq_history>>

\* line 46: run_agent raises; nothing is stored
HqRaise(r) ==
    /\ hq_pc[r] = "running"
    /\ hq_pc' = [hq_pc EXCEPT ![r] = "failed"]
    /\ UNCHANGED <<notHq, _sessions, hq_key, hq_history>>

NextHq ==
    \/ \E r \in 1..Len(hq_pc) : HqRead(r)
    \/ \E r \in 1..Len(hq_pc) : HqStore(r)
    \/ \E r \in 1..Len(hq_pc) : HqRaise(r)

\* ---------------------------------- chat_stream event_generator (server.py)
\* the event types of the publish calls of the program
EventTypes == {"tool", "progress", "status"}

\* line 99: the synthetic acknowledgment
Acknowledgment == [type |-> "status", seq |-> 0]

\* lines 122 and 125: the final event
FinalEvent(outcome) ==
    IF outcome = "returned" THEN [type |-> "done", seq |-> 0]
                            ELSE [type |-> "error", seq |-> 0]

\* queue.put_nowait raises QueueFull when the queue holds maxsize events
QueueFull == Len(queue) >= MaxQueueSize

\* a buggy variant: the drain loop is skipped
QueueEmptyAssumed == TRUE

\* line 116: queue.empty()
QueueEmpty == Len(queue) = 0

\* line 107: agent_task.done()
AgentTaskDone == agent_task \in {"returned", "raised"}

IdleCs ==
    /\ cs_pc = "idle"
    /\ queue = <<>>
    /\ agent_task = "none"
    /\ published = 0
    /\ enqueued = <<>>
    /\ sent = <<>>

\* the request has arrived and event_generator has not run yet
StartCs ==
    /\ cs_pc = "start"
    /\ queue = <<>>
    /\ agent_task = "none"
    /\ published = 0
    /\ enqueued = <<>>
    /\ sent = <<>>

\* lines 96-99: the queue is created and the acknowledgment is yielded
CsAcknowledge ==
    /\ cs_pc = "start"
    /\ queue' = <<>>
    /\ sent' = Append(sent, Acknowledgment)
    /\ cs_pc' = "acknowledged"
    /\ UNCHANGED <<notCs, agent_task, published, enqueued>>

\* lines 102-104: handle_query is started as a task
CsCreateTask ==
    /\ cs_pc = "acknowledged"
    /\ agent_task' = "running"
    /\ cs_pc' = "loop"
    /\ UNCHANGED <<notCs, queue, published, enqueued, sent>>

\* publish (__init__.py lines 80-85) called by the agent task: the event is
\* put on the queue, or dropped when the queue is full
AgentPublish(type) ==
    /\ agent_task = "running"
    /\ published < MaxEvents
    /\ published' = published + 1
    /\ IF QueueFull
         THEN UNCHANGED <<queue, enqueued>>
         ELSE /\ queue' = Append(queue, [type |-> type, seq |-> published + 1])
              /\ enqueued' = Append(enqueued, [type |-> type, seq |-> published + 1])
    /\ UNCHANGED <<notCs, cs_pc, agent_task, sent>>

\* handle_query returns its answer
AgentReturn ==
    /\ agent_task = "running"
    /\ agent_task' = "returned"
    /\ UNCHANGED <<notCs, cs_pc, queue, published, enqueued, sent>>

\* handle_query raises
AgentRaise ==
    /\ agent_task = "running"
    /\ agent_task' = "raised"
    /\ UNCHANGED <<notCs, cs_pc, queue, published, enqueued, sent>>

\* line 107: the loop condition
CsLoopTest ==
    /\ cs_pc = "loop"
    /\ cs_pc' = IF AgentTaskDone THEN "drain" ELSE "waiting"
    /\ UNCHANGED <<notCs, queue, agent_task, published, enqueued, sent>>

\* lines 110-111: queue.get() returns within the timeout; the event is yielded
CsGet ==
    /\ cs_pc = "waiting"
    /\ ~QueueEmpty
    /\ sent' = Append(sent, Head(queue))
    /\ queue' = Tail(queue)
    /\ cs_pc' = "loop"
    /\ UNCHANGED <<notCs, agent_task, published, enqueued>>

\* lines 110-113: the timeout fires; a cancelled queue.get() takes no event
CsTimeout ==
    /\ cs_pc = "waiting"
    /\ cs_pc' = "loop"
    /\ UNCHANGED <<notCs, queue, agent_task, published, enqueued, sent>>

\* lines 116-118: one round of the drain loop
CsDrain ==
    /\ cs_pc = "drain"
    /\ ~QueueEmpty
    /\ sent' = Append(sent, Head(queue))
    /\ queue' = Tail(queue)
    /\ UNCHANGED <<notCs, cs_pc, agent_task, published, enqueued>>

\* lines 121-127: the drain loop is over; the task's outcome gives the final
\* event (done, or error from the handler) and the queue is cleared
CsFinal ==
    /\ cs_pc = "drain"
    /\ QueueEmpty
    /\ sent' = Append(sent, FinalEvent(agent_task))
    /\ queue' = <<>>
    /\ cs_pc' = "closed"
    /\ UNCHANGED <<notCs, agent_task, published, enqueued>>

NextCs ==
    \/ CsAcknowledge
    \/ CsCreateTask
    \/ \E type \in EventTypes : AgentPublish(type)
    \/ AgentReturn
    \/ AgentRaise
    \/ CsLoopTest
    \/ CsGet
    \/ CsTimeout
    \/ CsDrain
    \/ CsFinal

\* ---------------------------------------------------------- specifications
InitPM == StartPM /\ IdleAg /\ IdleCli /\ IdleSt /\ IdleDd /\ IdleRk /\ IdleFk /\ IdleRs /\ IdleHq /\ IdleCs
SpecPM == InitPM /\ [][NextPM]_vars
\* the event loop keeps running its ready tasks and every func call ends
FairSpecPM == InitPM /\ [][NextPM]_vars /\ WF_vars(NextPM)

InitAgent == IdlePM /\ StartAg /\ IdleCli /\ IdleSt /\ IdleDd /\ IdleRk /\ IdleFk /\ IdleRs /\ IdleHq /\ IdleCs
SpecAgent == InitAgent /\ [][NextAg]_vars
\* the turn runs on: a model call answers and a tool call ends
FairSpecAgent == InitAgent /\ [][NextAg]_vars /\ WF_vars(NextAg)

InitCli == IdlePM /\ IdleAg /\ StartCli /\ IdleSt /\ IdleDd /\ IdleRk /\ IdleFk /\ IdleRs /\ IdleHq /\ IdleCs
SpecCli == InitCli /\ [][NextCli]_vars

InitStream == IdlePM /\ IdleAg /\ IdleCli /\ StartSt /\ IdleDd /\ IdleRk /\ IdleFk /\ IdleRs /\ IdleHq /\ IdleCs
SpecStream == InitStream /\ [][NextSt]_vars

InitDedup == IdlePM /\ IdleAg /\ IdleCli /\ IdleSt /\ StartDd /\ IdleRk /\ IdleFk /\ IdleRs /\ IdleHq /\ IdleCs
SpecDedup == InitDedup /\ [][NextDd]_vars

InitRank == IdlePM /\ IdleAg /\ IdleCli /\ IdleSt /\ IdleDd /\ StartRk /\ IdleFk /\ IdleRs /\ IdleHq /\ IdleCs
SpecRank == InitRank /\ [][NextRk]_vars

InitFork == IdlePM /\ IdleAg /\ IdleCli /\ IdleSt /\ IdleDd /\ IdleRk /\ StartFk /\ IdleRs /\ IdleHq /\ IdleCs
SpecFork == InitFork /\ [][NextFk]_vars

InitResearch == IdlePM /\ IdleAg /\ IdleCli /\ IdleSt /\ IdleDd /\ IdleRk /\ IdleFk /\ StartRs /\ IdleHq /\ IdleCs
SpecResearch == InitResearch /\ [][NextRs]_vars

InitSessions == IdlePM /\ IdleAg /\ IdleCli /\ IdleSt /\ IdleDd /\ IdleRk /\ IdleFk /\ IdleRs /\ StartHq /\ IdleCs
SpecSessions == InitSessions /\ [][NextHq]_vars

InitChatStream == IdlePM /\ IdleAg /\ IdleCli /\ IdleSt /\ IdleDd /\ IdleRk /\ IdleFk /\ IdleRs /\ IdleHq /\ StartCs
SpecChatStream == InitChatStream /\ [][NextCs]_vars

\* the two rankers, one run of either
InitRanking == InitFork \/ InitRank
NextRanking == NextFk \/ NextRk
SpecRanking == InitRanking /\ [][NextRanking]_vars


\* ------------------------------------------------------------------ claims

\* C1: when parallel_map returns, the returned list has one entry per item and
\* its i-th entry is the value func returned for items[i], whatever the order
\* in which the calls completed and whatever max_concurrency is.
PMOrderPreserved ==
    pm_pc = "returned" =>
        /\ Len(pm_return) = Len(items)
        /\ \A i \in 1..Len(items) : pm_return[i] = FuncValue(items[i], i)

\* three items completed in the order C, A, B and the call returned
PMOrderWitness ==
    /\ pm_pc = "returned"
    /\ Len(items) = 3
    /\ finish_order = <<3, 1, 2>>

\* C7 (as claimed): when func raises for an item, the call still returns, with
\* the correct result of every other item at its index and some result for the
\* failing item.
PMIsolationUnderFailure ==
    (pm_pc \in {"returned", "raised"} /\ \E i \in 1..Len(items) : task[i] = "failed") =>
        /\ pm_pc = "returned"
        /\ Len(pm_return) = Len(items)
        /\ \A i \in 1..Len(items) :
              IF i \in raising
                THEN pm_return[i] # NoResult
                ELSE pm_return[i] = FuncValue(items[i], i)

\* C2: a first response without tool calls ends the turn after one model call
\* and no dispatch; one tool call followed by a response without tool calls
\* means one dispatch phase, one tool invocation, two model calls, and the
\* text returned is the content of the second response.
AgTurnTermination ==
    ag_pc = "returned" =>
        /\ ~HasToolCalls(responses_log[1]) =>
              /\ model_calls = 1
              /\ dispatch_phases = 0
              /\ tool_lookups = 0
              /\ ag_return = responses_log[1].content
        /\ ( /\ Len(responses_log) >= 2
             /\ Len(responses_log[1].tool_calls) = 1
             /\ Len(responses_log[2].tool_calls) = 0 ) =>
              /\ model_calls = 2
              /\ dispatch_phases = 1
              /\ tool_lookups = 1
              /\ (responses_log[1].tool_calls[1].name \in Registered => tool_runs = 1)
              /\ ag_return = responses_log[2].content

\* the turn of the unit test: one registered tool call, then a final answer
AgTurnWitness ==
    /\ ag_pc = "returned"
    /\ Len(responses_log) = 2
    /\ Len(responses_log[1].tool_calls) = 1
    /\ responses_log[1].tool_calls[1].name \in Registered
    /\ Len(responses_log[2].tool_calls) = 0
    /\ tool_runs = 1
    /\ ag_return = responses_log[2].content
    /\ responses_log[1].content # responses_log[2].content

\* the tool message m answers the tool call tc
ToolReplyFor(tc, m) == m.role = "tool" /\ m.content.text = tc.name

\* in history h every assistant message with n tool calls is followed by its n
\* tool messages, in tool-call order, before any other message
HistoryPaired(h) ==
    \A p \in 1..Len(h) :
        (h[p].role = "assistant" /\ Len(h[p].tool_calls) > 0) =>
            LET n == Len(h[p].tool_calls)
            IN /\ \A k \in 1..n :
                    p + k <= Len(h) => ToolReplyFor(h[p].tool_calls[k], h[p + k])
               /\ p + n + 1 <= Len(h) => h[p + n + 1].role # "tool"

ArgumentsAsSent(call) ==
    call.arguments = SubSeq(st_target[call.index], 1, st_sent[call.index])

\* C4: the arguments accumulated for an index, and those of the tool call
\* emitted at the end, are the concatenation in arrival order of the fragments
\* received for that index: they equal the part of the streamed arguments
\* string sent so far, however it was split and interleaved.
StArgumentsConcatenated ==
    /\ \A k \in 1..Len(accumulated_tool_calls) :
          ArgumentsAsSent(accumulated_tool_calls[k])
    /\ \A e \in 1..Len(events) :
          events[e].type = "tool_calls" =>
             \A k \in 1..Len(events[e].data) : ArgumentsAsSent(events[e].data[k])

\* a whole arguments string arrived in two or more fragments, interleaved
\* with a fragment of the other index, and the tool call was emitted
StArgumentsWitness ==
    /\ st_pc = "finished"
    /\ Len(events) > 0
    /\ events[Len(events)].type = "tool_calls"
    /\ \E k \in 1..Len(accumulated_tool_calls) :
          LET call == accumulated_tool_calls[k]
          IN /\ call.arguments = st_target[call.index]
             /\ st_frags[call.index] >= 2
             /\ \E j \in Indices : j # call.index /\ st_frags[j] >= 1

\* C9: after a transport failure the generator has ended without raising, its
\* last event is the content event describing the error, and it yielded no
\* tool_calls event.
StTransportErrorContained ==
    st_failure # "none" =>
        /\ st_pc = "finished"
        /\ Len(events) > 0
        /\ events[Len(events)] = ErrorEvent
        /\ \A e \in 1..Len(events) : events[e].type # "tool_calls"

\* the stream broke after tool-call fragments had been accumulated
StTransportErrorWitness ==
    /\ st_failure = "read"
    /\ Len(accumulated_tool_calls) > 0
    /\ st_pc = "finished"

RECURSIVE RetrievedUpTo(_)
\* every node retrieved for the first n questions: the questions in
\* generation order, the nodes of each question in rank order
RetrievedUpTo(n) ==
    IF n = 0 THEN <<>>
    ELSE RetrievedUpTo(n - 1) \o Retrieve(retriever, questions[n])

\* the position in stream of the first node with this id
FirstPosition(stream, id) ==
    CHOOSE p \in 1..Len(stream) :
        /\ stream[p].node_id = id
        /\ \A q \in 1..(p - 1) : stream[q].node_id # id

\* C5: all_chunks lists the chunks in order of first appearance in the
\* retrieved stream; the chunk kept for an id is its first occurrence, and
\* every retrieved id has its chunk.
DedupFirstOccurrence ==
    LET stream == RetrievedUpTo(q_pos - 1)
    IN /\ \A k \in 1..Len(all_chunks) :
             \E p \in 1..Len(stream) :
                /\ stream[p] = all_chunks[k]
                /\ \A q \in 1..(p - 1) : stream[q].node_id # all_chunks[k].node_id
       /\ \A k, l \in 1..Len(all_chunks) :
             k < l => FirstPosition(stream, all_chunks[k].node_id)
                        < FirstPosition(stream, all_chunks[l].node_id)
       /\ \A p \in 1..Len(stream) :
             \E k \in 1..Len(all_chunks) : all_chunks[k].node_id = stream[p].node_id

\* two different questions whose results overlap at different ranks
DedupFirstOccurrenceWitness ==
    /\ dd_pc = "returned"
    /\ Len(questions) = 2
    /\ questions[1] # questions[2]
    /\ Len(all_chunks) = similarity_top_k + 1
    /\ retriever[questions[1]][1] = retriever[questions[2]][3]

\* C6: all_chunks never holds two chunks with the same id, and its ids are
\* the ids retrieved for the set of questions handled so far, so a question
\* that occurs again adds nothing.
DedupIdempotent ==
    /\ \A k, l \in 1..Len(all_chunks) :
          k # l => all_chunks[k].node_id # all_chunks[l].node_id
    /\ {all_chunks[k].node_id : k \in 1..Len(all_chunks)} =
          UNION {{retriever[q][r] : r \in 1..Len(retriever[q])} :
                    q \in {questions[i] : i \in 1..(q_pos - 1)}}

\* the same question was retrieved twice
DedupIdempotentWitness ==
    /\ dd_pc = "returned"
    /\ Len(questions) = 2
    /\ questions[1] = questions[2]
    /\ Len(all_chunks) = similarity_top_k

\* C8: the list rank_papers_parallel returns has exactly one entry per input
\* paper; the entry of a paper whose scoring raised has score 0 and a reason
\* starting with "Error:", and every other paper has its own score.
RankIsolatesFailures ==
    rk_pc = "returned" =>
        /\ Len(rk_return) = Len(papers)
        /\ \A i \in 1..Len(papers) :
              \E k \in 1..Len(rk_return) :
                 /\ rk_return[k].id = papers[i]
                 /\ IF run_outcome[i] = 0
                      THEN rk_return[k].score = 0 /\ rk_return[k].reason = "Error"
                      ELSE rk_return[k].score = run_outcome[i]
                             /\ rk_return[k].reason # "Error"

\* three papers, the scoring of the second one raised
RankIsolatesFailuresWitness ==
    /\ rk_pc = "returned"
    /\ Len(papers) = 3
    /\ run_outcome[2] = 0
    /\ run_outcome[1] > 0
    /\ run_outcome[3] > 0

\* C11: every final score Agent.run returns is the arithmetic mean of the
\* paper's branch scores rounded to one decimal: it lies within half a tenth
\* of the mean; branch scores 3, 4, 5 give 4.0 and 1, 1, 1 give 1.0.
FinalScoreIsRoundedMean ==
    fk_pc = "returned" /\ fk_return.kind = "ranking" =>
        \A i \in 1..Len(fk_papers) :
           \E k \in 1..Len(fk_return.scores) :
              LET e == fk_return.scores[k]
                  d == 10 * SumSeq(fork_score[i]) - num_forks * e.score
              IN  /\ e.id = fk_papers[i]
                  /\ 2 * d <= num_forks
                  /\ 2 * d >= -num_forks
                  /\ (fork_score[i] = <<3, 4, 5>> => e.score = 40)
                  /\ (fork_score[i] = <<1, 1, 1>> => e.score = 10)

\* a ranking was returned for the papers with branch scores 3, 4, 5 and
\* 1, 1, 1 and for one whose mean is not a whole number of tenths
FinalScoreWitness ==
    /\ fk_pc = "returned"
    /\ fk_return.kind = "ranking"
    /\ fk_papers = <<"D", "E", "F">>
    /\ fork_score[1] = <<3, 4, 5>>
    /\ fork_score[2] = <<1, 1, 1>>
    /\ fork_score[3] = <<4, 5, 5>>

\* C12: a paper's score list and final score are built only from all
\* num_forks branch scores of that paper: s["score"], once set, is the list
\* of the scores of all its branches, and every entry of the results and of
\* the returned ranking is computed from such a complete list.
ForkBarrierJoin ==
    /\ \A i \in 1..Len(fk_papers) :
          state_score[i] # NoScores =>
             /\ Len(state_score[i]) = num_forks
             /\ \A k \in 1..num_forks :
                   fork_score[i][k] # Pending /\ state_score[i][k] = fork_score[i][k]
    /\ (fk_results # <<>> \/ fk_return.kind = "ranking") =>
          /\ Len(fk_results) = Len(fk_papers)
          /\ Len(fk_return.scores) = Len(fk_papers)
          /\ \A i \in 1..Len(fk_papers) :
                /\ Len(state_score[i]) = num_forks
                /\ fk_results[i].id = fk_papers[i]
                /\ 2 * (10 * SumSeq(fork_score[i]) - num_forks * fk_results[i].score)
                      \in -num_forks..num_forks
                /\ \E k \in 1..Len(fk_return.scores) : fk_return.scores[k] = fk_results[i]

\* one paper has been joined with all its branches while only some branches
\* of another paper have answered
ForkBarrierWitness ==
    /\ fk_pc = "batch"
    /\ Len(fk_papers) >= 2
    /\ fk_worker[1] = "done"
    /\ state_score[1] = fork_score[1]
    /\ fk_worker[2] = "running"
    /\ fork_score[2][1] # Pending
    /\ fork_score[2][num_forks] = Pending
    /\ state_score[2] = NoScores

\* C13: the ranking Agent.run returns and the list rank_papers_parallel
\* returns are in non-increasing order of score and hold, for every paper,
\* one entry with the score computed for that paper; branch scores 5,5,5 for
\* A, 1,2,3 for B and 4,4,4 for C give A (5.0), C (4.0), B (2.0).
RankingSortedByScore ==
    /\ (fk_pc = "returned" /\ fk_return.kind = "ranking") =>
          LET ranked == fk_return.scores
          IN  /\ Len(ranked) = Len(fk_papers)
              /\ \A k \in 1..(Len(ranked) - 1) : ranked[k].score >= ranked[k + 1].score
              /\ \A i \in 1..Len(fk_papers) :
                    \E k \in 1..Len(ranked) :
                       /\ ranked[k].id = fk_papers[i]
                       /\ 2 * (10 * SumSeq(fork_score[i]) - num_forks * ranked[k].score)
                             \in -num_forks..num_forks
              /\ fk_papers = <<"A", "B", "C">> =>
                    ranked = <<[id |-> "A", score |-> 50],
                               [id |-> "C", score |-> 40],
                               [id |-> "B", score |-> 20]>>
    /\ rk_pc = "returned" =>
          /\ Len(rk_return) = Len(papers)
          /\ \A k \in 1..(Len(rk_return) - 1) : rk_return[k].score >= rk_return[k + 1].score
          /\ \A i \in 1..Len(papers) :
                \E k \in 1..Len(rk_return) :
                   rk_return[k].id = papers[i] /\ rk_return[k].score = run_outcome[i]

\* the ranking of the papers A, B, C has been returned
RankingSortedWitness ==
    /\ fk_pc = "returned"
    /\ fk_return.kind = "ranking"
    /\ fk_papers = <<"A", "B", "C">>
    /\ fork_score = <<<<5, 5, 5>>, <<1, 2, 3>>, <<4, 4, 4>>>>

\* C14: every tool message of the history has a tool_call_id key whose value
\* is the id of a tool call listed in an earlier assistant message.
ToolMessagesReferenceCall ==
    \A k \in 1..Len(messages) :
       messages[k].role = "tool" =>
          /\ "tool_call_id" \in DOMAIN messages[k]
          /\ \E j \in 1..(k - 1) :
                /\ messages[j].role = "assistant"
                /\ \E c \in 1..Len(messages[j].tool_calls) :
                      /\ "id" \in DOMAIN messages[j].tool_calls[c]
                      /\ messages[j].tool_calls[c].id = messages[k].tool_call_id

\* C15 as stated: after the retrieval step of a run, the number of unique
\* chunks is at least top_k and at most num_questions * top_k.
UniqueChunksAtLeastTopK ==
    retrieval_calls > 0 =>
        /\ Len(rs_all_chunks) >= similarity_top_k
        /\ Len(rs_all_chunks) <= Len(exploration_questions) * similarity_top_k

\* C15, amended: after the retrieval step of a run, the chunks kept have
\* distinct ids and their number is at least the smaller of top_k and the
\* number of chunks in the index, and at most num_questions * top_k.
UniqueChunksBounded ==
    retrieval_calls > 0 =>
        /\ \A k, l \in 1..Len(rs_all_chunks) :
              k # l => rs_all_chunks[k].node_id # rs_all_chunks[l].node_id
        /\ Len(rs_all_chunks) >= Min(similarity_top_k, total_chunks)
        /\ Len(rs_all_chunks) <= Len(exploration_questions) * similarity_top_k

\* retrieval with two questions over an index that holds two chunks
UniqueChunksWitness ==
    /\ rs_pc = "answer"
    /\ retrieval_calls = 1
    /\ Len(exploration_questions) = 2
    /\ total_chunks = 2
    /\ Len(rs_all_chunks) = 2

\* C16: when the generation output yields no exploration question, Agent.run
\* returns the failure message at once: no retrieval call and no answer call
\* is made, and retrieval is never run over an empty question list.
FailFastOnNoQuestions ==
    /\ (generation_calls > 0 /\ exploration_questions = <<>>) =>
          /\ rs_pc = "returned"
          /\ rs_return = "failed_questions"
          /\ retrieval_calls = 0
          /\ answer_calls = 0
    /\ (retrieval_calls > 0 \/ answer_calls > 0) => exploration_questions # <<>>

\* the questions were generated once, none was parsed, and the run is over
FailFastWitness ==
    /\ rs_pc = "returned"
    /\ generation_calls = 1
    /\ exploration_questions = <<>>
    /\ rs_return = "failed_questions"

\* C17: the question list used for retrieval has between 3 and 5 entries and
\* was generated by exactly one call.
QuestionsThreeToFive ==
    retrieval_calls > 0 =>
        /\ Len(exploration_questions) >= 3
        /\ Len(exploration_questions) <= 5
        /\ generation_calls = 1

\* C18: when the paper directory is missing, or the paper is there without
\* metadata, or paper and abstract are there without index, Agent.run does not
\* raise, returns the message of that case and has made no generation or
\* retrieval call.
NotPreparedShortCircuits ==
    rs_pc \notin {"idle", "prepare"} =>
        /\ papers_state # "present" =>
              /\ rs_pc = "returned" /\ rs_return = "paper_not_found"
              /\ generation_calls = 0 /\ retrieval_calls = 0
        /\ (papers_state = "present" /\ metadata_state = "missing") =>
              /\ rs_pc = "returned" /\ rs_return = "no_metadata"
              /\ generation_calls = 0 /\ retrieval_calls = 0
        /\ (papers_state = "present" /\ metadata_state = "ok" /\ ~index_exists) =>
              /\ rs_pc = "returned" /\ rs_return = "index_not_found"
              /\ generation_calls = 0 /\ retrieval_calls = 0

\* C19: a turn of chat_with_tool_calling enters the tool loop at most
\* max_iterations times and makes at most max_iterations + 1 model calls;
\* when every response of the loop asked for tools, the turn ends with one
\* more model call, made without tools, whose content is returned; and every
\* turn comes to its return.
AgTurnBounded ==
    /\ [](/\ dispatch_phases <= max_iterations
          /\ model_calls <= max_iterations + 1
          /\ (ag_pc = "returned" /\ dispatch_phases = max_iterations) =>
                /\ model_calls = max_iterations + 1
                /\ \A k \in 1..max_iterations : HasToolCalls(responses_log[k])
                /\ ~HasToolCalls(responses_log[model_calls])
                /\ ag_return = responses_log[model_calls].content)
    /\ <>(ag_pc = "returned")

\* the model asked for tools in every response of the loop and the turn ended
\* with the call without tools
AgTurnBoundedWitness ==
    /\ ag_pc = "returned"
    /\ max_iterations = MaxIterations
    /\ dispatch_phases = max_iterations
    /\ model_calls = max_iterations + 1

\* C20: with max_concurrency = m >= 1 the number of func invocations in
\* progress never exceeds m, and every item's invocation eventually ends: its
\* task is done (its result stored) or, when func raised, failed.
PMConcurrencyBounded ==
    /\ [](max_concurrency >= 1 =>
             /\ Cardinality({i \in 1..Len(task) : task[i] = "running"}) <= max_concurrency
             /\ sem_value >= 0)
    /\ <>(max_concurrency >= 1 =>
             \A i \in 1..total :
                /\ task[i] \in {"done", "failed"}
                /\ (task[i] = "done" <=> i \notin raising)
                /\ (task[i] = "done" => results[i] = FuncValue(items[i], i)))

\* one permit, three items: one invocation in progress, a task waiting for
\* the permit, and an item already processed
PMConcurrencyWitness ==
    /\ max_concurrency = 1
    /\ total = 3
    /\ \E i, j, k \in 1..total :
          task[i] = "done" /\ task[j] = "running" /\ task[k] = "waiting"

\* C21: the tool-call list emitted at the end of a stream is ordered by
\* tool-call index.
StToolCallsOrderedByIndex ==
    \A e \in 1..Len(events) :
       events[e].type = "tool_calls" =>
          \A k, l \in 1..Len(events[e].data) :
             k < l => events[e].data[k].index < events[e].data[l].index

\* C23: a stream that ends without the [DONE] frame ends the turn with an
\* error content event, and no tool-call list is emitted for it.
StTruncationIsError ==
    st_pc = "truncated" =>
        /\ Len(events) > 0
        /\ events[Len(events)] = ErrorEvent
        /\ \A e \in 1..Len(events) : events[e].type # "tool_calls"

\* C26: once the accumulated tool call of an index has an id, a later
\* fragment of that index does not change it.
StIdSetOnce ==
    [][\A k \in 1..Len(accumulated_tool_calls) :
          accumulated_tool_calls[k].id # "" =>
             accumulated_tool_calls'[k].id = accumulated_tool_calls[k].id]_vars

CountRole(h, role) == Cardinality({k \in 1..Len(h) : h[k].role = role})

ForkParseFailureExcluded ==
    /\ fk_pc # "raised"
    /\ \A i \in 1..Len(fk_papers) :
          /\ fk_worker[i] # "failed"
          /\ \A k \in 1..Len(state_score[i]) : state_score[i][k] # Unparsable
    /\ (fk_pc = "returned" /\ fk_papers # <<>>) =>
          /\ fk_return.kind = "ranking"
          /\ \A i \in 1..Len(fk_papers) :
                \E k \in 1..Len(fk_return.scores) : fk_return.scores[k].id = fk_papers[i]

\* C27: the stored history of a session is append-only: the messages of every
\* completed handle_query call are in the history stored for its session.
SessionKeepsCompletedCalls ==
    \A r \in 1..Len(hq_pc) :
       hq_pc[r] = "done" =>
          \E k \in 1..Len(_sessions[hq_key[r]]) :
             _sessions[hq_key[r]][k] = [request |-> r, role |-> "user"]

\* C28: the completed counter is incremented once per item, under the lock:
\* completed + pending = total whenever the reporter reads them, the values
\* handed to on_progress are 1, 2, ... without repeat, and once every item's
\* task has ended on_progress has been called once per item, with 1..total.
PMProgressOncePerItem ==
    pm_pc \in {"gather", "returned", "raised"} =>
        /\ completed_count + Cardinality(pending_indices) = total
        /\ last_status # <<0, 0>> => last_status[1] + last_status[2] = total
        /\ progress_calls = [k \in 1..completed_count |-> k]
        /\ (\A i \in 1..total : task[i] \in {"done", "failed"}) =>
              progress_calls = [k \in 1..total |-> k]

\* C29: the status reporter never changes the results, and it never outlives
\* the call: once every per-item call has finished (or one has raised)
\* parallel_map can return (or raise) at once, whatever the reporter is doing,
\* and from then on the reporter is cancelled or finished and reports nothing.
PMReporterContained ==
    /\ [](pm_pc \in {"returned", "raised"} =>
             /\ status_task \in {"none", "cancelled", "finished"}
             /\ (status_enabled /\ total > 0) => status_task # "none")
    /\ [][ /\ (last_status' # last_status
                 \/ (status_task # "finished" /\ status_task' = "finished")) =>
                (results' = results /\ pm_return' = pm_return /\ pm_pc' = pm_pc)
           /\ (pm_pc = "gather" /\ \A i \in 1..total : task[i] = "done") =>
                (pm_pc' = "returned" \/ (pm_pc' = pm_pc /\ results' = results))
           /\ pm_pc \in {"returned", "raised"} =>
                (last_status' = last_status /\ status_task' = status_task) ]_vars

\* the reporter published a status, was asleep when the last call finished,
\* and parallel_map returned with the reporter cancelled
PMReporterWitness ==
    /\ pm_pc = "returned"
    /\ status_task = "cancelled"
    /\ last_status # <<0, 0>>
    /\ Len(pm_return) = total

\* C30: the events sent by /chat/stream after the acknowledgment are the
\* events accepted by the request's queue, in publish order; no final event
\* is sent before the stream closes, and a closed stream has sent every
\* accepted event followed by exactly one final event, done or error.
StreamSendsAllThenFinal ==
    /\ cs_pc \notin {"idle", "start", "closed"} =>
          /\ Len(sent) - 1 <= Len(enqueued)
          /\ sent = <<Acknowledgment>> \o SubSeq(enqueued, 1, Len(sent) - 1)
          /\ enqueued = SubSeq(sent, 2, Len(sent)) \o queue
    /\ cs_pc = "closed" =>
          sent = <<Acknowledgment>> \o enqueued \o <<FinalEvent(agent_task)>>

\* the agent published events while the generator was waiting and after its
\* last wake-up, one event was dropped by a full queue, the task raised, and
\* the stream closed with the error event
StreamWitness ==
    /\ cs_pc = "closed"
    /\ agent_task = "raised"
    /\ Len(enqueued) >= 2
    /\ published > Len(enqueued)

====
